---- MODULE Spec2Model ----
(***************************************************************************)
(* A model of unbabelizer's text-safety layer: the escape codec, the       *)
(* translation corrector, the bounded poller wait_for_element and the      *)
(* POEditScreen edit/filter modal.                                         *)
(*                                                                         *)
(* A string is a sequence of code points (naturals), so that escaping,     *)
(* unescaping, stripping and the regular-expression substitutions are      *)
(* computed character by character as the code computes them.              *)
(***************************************************************************)
EXTENDS Integers, Sequences, FiniteSets, TLC

VARIABLES
    \* escape codec: the raw text, its escaped form, the decoded form
    text, display, decoded, codecPc,
    \* translation corrector: the arguments and the outcome of the call
    msgid, translation, corrected, correctorPc,
    \* wait_for_element: arguments, the local total_time, the position in the
    \* coroutine, its outcome, and history counters of what it has done
    timeout, interval, total_time, pollPc, pollResult, probes, sleeps,
    \* the rounding error of the float total_time: the sign of what the repeated
    \* additions have made of it, less the exact sum
    rounding,
    \* the probe handed to wait_for_element: how many calls fail before the first
    \* success, and the kind of exception a failing call raises
    failsFirst, probeError,
    \* NotifyException: the block it guards, and what the notifier and the logger
    \* have received
    guard,
    \* POEditScreen: its attributes, the widgets it composed, the result handed to
    \* dismiss, the running action, the queued key events, and what was observed
    entry, idx, screenState, dismissed, fields, mounted, handler, pending, observed

codecVars == <<text, display, decoded, codecPc>>

correctorVars == <<msgid, translation, corrected, correctorPc>>

pollerVars == <<timeout, interval, total_time, rounding, pollPc, pollResult, probes,
                sleeps, failsFirst, probeError>>

screenVars == <<entry, idx, screenState, dismissed, fields, mounted, handler, pending, observed>>

guardVars == <<guard>>

vars == <<codecVars, correctorVars, pollerVars, screenVars, guardVars>>

----------------------------------------------------------------------------
(* Characters, by code point.                                              *)

NUL == 0

BEL == 7

BS == 8

TAB == 9

LF == 10

VT == 11

FF == 12

CR == 13

SPACE == 32

BACKSLASH == 92

LBRACE == 123

RBRACE == 125

\* ord() of a one-character string literal used by the code
Ord(c) ==
    CASE c = "0" -> 48 [] c = "1" -> 49 [] c = "4" -> 52 [] c = "A" -> 65
      [] c = "a" -> 97 [] c = "b" -> 98 [] c = "c" -> 99 [] c = "f" -> 102
      [] c = "g" -> 103 [] c = "n" -> 110 [] c = "r" -> 114 [] c = "t" -> 116
      [] c = "v" -> 118 [] c = "x" -> 120 [] c = "d" -> 100
      [] c = "(" -> 40 [] c = ")" -> 41 [] c = "-" -> 45 [] c = "*" -> 42
      [] c = "." -> 46 [] c = "," -> 44 [] c = ";" -> 59 [] c = ":" -> 58
      [] c = "!" -> 33 [] c = "?" -> 63 [] c = "%" -> 37
      [] c = "<" -> 60 [] c = ">" -> 62 [] c = "_" -> 95

Digits == 48..57

OctDigits == 48..55

AsciiLetters == (65..90) \cup (97..122)

\* str.isspace() / the \s class of a str pattern, for code points below 256
IsSpace(c) == c \in {9, 10, 11, 12, 13, 28, 29, 30, 31, 32, 133, 160}

\* the \w class of a str pattern, for ASCII code points
IsWord(c) == c \in Digits \cup AsciiLetters \cup {95}

\* value of a hexadecimal digit, -1 for any other character
HexValue(c) ==
    IF c \in 48..57 THEN c - 48
    ELSE IF c \in 97..102 THEN c - 87
    ELSE IF c \in 65..70 THEN c - 55
    ELSE -1

IsHexDigit(c) == HexValue(c) >= 0

\* the lower-case hexadecimal digit of a value 0..15, as format(.., "02x") writes it
HexDigit(v) == IF v < 10 THEN 48 + v ELSE 87 + v

----------------------------------------------------------------------------
(* String helpers.                                                         *)

\* s[i:] in Python terms, for a 1-based index i
From(s, i) == SubSeq(s, i, Len(s))

RECURSIVE LStrip(_)
LStrip(s) == IF s # <<>> /\ IsSpace(Head(s)) THEN LStrip(Tail(s)) ELSE s

RECURSIVE RStrip(_)
RStrip(s) ==
    IF s # <<>> /\ IsSpace(s[Len(s)]) THEN RStrip(SubSeq(s, 1, Len(s) - 1)) ELSE s

\* str.strip()
Strip(s) == RStrip(LStrip(s))

\* every string over alphabet A of length at most n
StringsUpTo(A, n) == UNION {[1..k -> A] : k \in 0..n}

----------------------------------------------------------------------------
(* Escape codec.                                                           *)

\* the character class of the pattern in escape_control_chars
EscapeClass == {LF, CR, TAB, BS, FF, VT, BEL, BACKSLASH, NUL}

escape_map ==
    (LF :> <<BACKSLASH, Ord("n")>>) @@ (CR :> <<BACKSLASH, Ord("r")>>) @@
    (TAB :> <<BACKSLASH, Ord("t")>>) @@ (BS :> <<BACKSLASH, Ord("b")>>) @@
    (FF :> <<BACKSLASH, Ord("f")>>) @@ (VT :> <<BACKSLASH, Ord("v")>>) @@
    (BEL :> <<BACKSLASH, Ord("a")>>) @@ (BACKSLASH :> <<BACKSLASH, BACKSLASH>>) @@
    (NUL :> <<BACKSLASH, Ord("0")>>)

replace_func_bare_backslash(c) ==
    IF c = BACKSLASH THEN <<BACKSLASH>>
    ELSE IF c \in DOMAIN escape_map THEN escape_map[c]
    ELSE <<BACKSLASH, Ord("x"), HexDigit(c \div 16), HexDigit(c % 16)>>

replace_func_without_null(c) ==
    IF c \in DOMAIN escape_map /\ c # NUL THEN escape_map[c]
    ELSE <<BACKSLASH, Ord("x"), HexDigit(c \div 16), HexDigit(c % 16)>>

\* replace_func: the escape of one matched character
replace_func(c) ==
    IF c \in DOMAIN escape_map THEN escape_map[c]
    ELSE <<BACKSLASH, Ord("x"), HexDigit(c \div 16), HexDigit(c % 16)>>

RECURSIVE escape_control_chars(_)
escape_control_chars(s) ==
    IF s = <<>> THEN <<>>
    ELSE (IF Head(s) \in EscapeClass THEN replace_func(Head(s)) ELSE <<Head(s)>>)
         \o escape_control_chars(Tail(s))

\* the second characters of the nine two-character alternatives of the pattern
\* in unescape_control_chars
TwoCharEscapes ==
    {Ord("n"), Ord("r"), Ord("t"), Ord("b"), Ord("f"), Ord("v"), Ord("a"), Ord("0"),
     BACKSLASH}

UnescapeMatchLenLowerHex(s) ==
    IF Len(s) >= 2 /\ s[1] = BACKSLASH /\ s[2] \in TwoCharEscapes THEN 2
    ELSE IF Len(s) >= 4 /\ s[1] = BACKSLASH /\ s[2] = Ord("x")
            /\ s[3] \in (48..57) \cup (97..102) /\ s[4] \in (48..57) \cup (97..102) THEN 4
    ELSE 0

\* length of the pattern's match starting at the head of s, 0 when none starts there
UnescapeMatchLen(s) ==
    IF Len(s) >= 2 /\ s[1] = BACKSLASH /\ s[2] \in TwoCharEscapes THEN 2
    ELSE IF Len(s) >= 4 /\ s[1] = BACKSLASH /\ s[2] = Ord("x")
            /\ IsHexDigit(s[3]) /\ IsHexDigit(s[4]) THEN 4
    ELSE 0

\* replace: the text one match stands for
unescape_replace(esc) ==
    IF esc = <<BACKSLASH, Ord("n")>> THEN <<LF>>
    ELSE IF esc = <<BACKSLASH, Ord("r")>> THEN <<CR>>
    ELSE IF esc = <<BACKSLASH, Ord("t")>> THEN <<TAB>>
    ELSE IF esc = <<BACKSLASH, Ord("b")>> THEN <<BS>>
    ELSE IF esc = <<BACKSLASH, Ord("f")>> THEN <<FF>>
    ELSE IF esc = <<BACKSLASH, Ord("v")>> THEN <<VT>>
    ELSE IF esc = <<BACKSLASH, Ord("a")>> THEN <<BEL>>
    ELSE IF esc = <<BACKSLASH, Ord("0")>> THEN <<NUL>>
    ELSE IF esc = <<BACKSLASH, BACKSLASH>> THEN <<BACKSLASH>>
    ELSE IF Len(esc) >= 2 /\ SubSeq(esc, 1, 2) = <<BACKSLASH, Ord("x")>>
         THEN <<16 * HexValue(esc[3]) + HexValue(esc[4])>>
    ELSE esc

RECURSIVE unescape_control_chars(_)
unescape_control_chars(s) ==
    IF s = <<>> THEN <<>>
    ELSE LET n == UnescapeMatchLen(s) IN
         IF n = 0 THEN <<Head(s)>> \o unescape_control_chars(Tail(s))
         ELSE unescape_replace(SubSeq(s, 1, n)) \o unescape_control_chars(From(s, n + 1))

----------------------------------------------------------------------------
(* Translation corrector.                                                  *)

\* the outcome of a call: a returned string, or a raised exception
Returned(s) == [raised |-> FALSE, value |-> s]

Raised == [raised |-> TRUE, value |-> <<>>]

\* a literal prefix in front of the outcome of the rest of a computation
Prepend(pre, rest) == IF rest.raised THEN rest ELSE Returned(pre \o rest.value)

\* index of the first character equal to c at or after position i, 0 when none
RECURSIVE IndexFrom(_, _, _)
IndexFrom(s, c, i) ==
    IF i > Len(s) THEN 0 ELSE IF s[i] = c THEN i ELSE IndexFrom(s, c, i + 1)

\* the pattern \{[^}]+\} matched at position i: the index of its closing brace,
\* 0 when it does not match there ([^}]+ runs to the first closing brace and
\* must take at least one character)
PlaceholderEnd(s, i) ==
    IF i > Len(s) \/ s[i] # LBRACE THEN 0
    ELSE LET j == IndexFrom(s, RBRACE, i + 1) IN IF j >= i + 2 THEN j ELSE 0

\* re.findall(r"\{[^}]+\}", s), scanning from position i
RECURSIVE FindPlaceholders(_, _)
FindPlaceholders(s, i) ==
    IF i > Len(s) THEN <<>>
    ELSE LET e == PlaceholderEnd(s, i) IN
         IF e > 0 THEN <<SubSeq(s, i, e)>> \o FindPlaceholders(s, e + 1)
         ELSE FindPlaceholders(s, i + 1)

\* position of the first match of \{[^}]+\} at or after i, 0 when there is none
RECURSIVE FirstPlaceholder(_, _)
FirstPlaceholder(s, i) ==
    IF i > Len(s) THEN 0
    ELSE IF PlaceholderEnd(s, i) > 0 THEN i ELSE FirstPlaceholder(s, i + 1)

\* the escapes a replacement template turns into one character
TemplateEscapes ==
    (Ord("a") :> BEL) @@ (Ord("b") :> BS) @@ (Ord("f") :> FF) @@ (Ord("n") :> LF) @@
    (Ord("r") :> CR) @@ (Ord("t") :> TAB) @@ (Ord("v") :> VT) @@ (BACKSLASH :> BACKSLASH)

\* re.sub's treatment of its replacement argument, a template: the text that
\* template t stands for when the match is m, or the re.error it raises.
\* (The pattern has no group, so the only valid reference is \g<0>.)
RECURSIVE ExpandTemplate(_, _)
ExpandTemplate(t, m) ==
    IF t = <<>> THEN Returned(<<>>)
    ELSE IF t[1] # BACKSLASH THEN Prepend(<<t[1]>>, ExpandTemplate(Tail(t), m))
    ELSE IF Len(t) = 1 THEN Raised
    ELSE LET c == t[2] IN
      IF c = Ord("g") THEN
          IF Len(t) >= 5 /\ t[3] = Ord("<") /\ t[4] = Ord("0") /\ t[5] = Ord(">")
          THEN Prepend(m, ExpandTemplate(From(t, 6), m))
          ELSE Raised
      ELSE IF c = Ord("0") THEN
          IF Len(t) >= 3 /\ t[3] \in OctDigits THEN
              IF Len(t) >= 4 /\ t[4] \in OctDigits
              THEN Prepend(<<(8 * (t[3] - 48) + (t[4] - 48)) % 256>>,
                           ExpandTemplate(From(t, 5), m))
              ELSE Prepend(<<t[3] - 48>>, ExpandTemplate(From(t, 4), m))
          ELSE Prepend(<<NUL>>, ExpandTemplate(From(t, 3), m))
      ELSE IF c \in Digits THEN
          IF Len(t) >= 4 /\ c \in OctDigits /\ t[3] \in OctDigits /\ t[4] \in OctDigits
          THEN LET v == 64 * (c - 48) + 8 * (t[3] - 48) + (t[4] - 48) IN
               IF v > 255 THEN Raised ELSE Prepend(<<v>>, ExpandTemplate(From(t, 5), m))
          ELSE Raised
      ELSE IF c \in DOMAIN TemplateEscapes
          THEN Prepend(<<TemplateEscapes[c]>>, ExpandTemplate(From(t, 3), m))
      ELSE IF c \in AsciiLetters THEN Raised
      ELSE Prepend(<<BACKSLASH, c>>, ExpandTemplate(From(t, 3), m))

\* re.sub(r"\{[^}]+\}", ph, s, count=1): the template is compiled before the
\* search, so a bad template raises whether or not s holds a match
SubPlaceholderOnce(ph, s) ==
    LET i == FirstPlaceholder(s, 1) IN
    IF i = 0 THEN (IF ExpandTemplate(ph, <<>>).raised THEN Raised ELSE Returned(s))
    ELSE LET e == PlaceholderEnd(s, i)
             r == ExpandTemplate(ph, SubSeq(s, i, e)) IN
         IF r.raised THEN Raised
         ELSE Returned(SubSeq(s, 1, i - 1) \o r.value \o From(s, e + 1))

\* the loop "for ph in placeholders: translation = re.sub(...)"
RECURSIVE FixPlaceholders(_, _)
FixPlaceholders(phs, s) ==
    IF phs = <<>> THEN Returned(s)
    ELSE LET r == SubPlaceholderOnce(Head(phs), s) IN
         IF r.raised THEN Raised ELSE FixPlaceholders(Tail(phs), r.value)

\* the last index of the maximal run of whitespace starting at i (i - 1 when
\* s[i] is not whitespace)
RECURSIVE SpaceRunEnd(_, _)
SpaceRunEnd(s, i) ==
    IF i <= Len(s) /\ IsSpace(s[i]) THEN SpaceRunEnd(s, i + 1) ELSE i - 1

\* re.sub(r"\s+", " ", s)
RECURSIVE CollapseSpaces(_, _)
CollapseSpaces(s, i) ==
    IF i > Len(s) THEN <<>>
    ELSE LET j == SpaceRunEnd(s, i) IN
         IF j >= i THEN <<SPACE>> \o CollapseSpaces(s, j + 1)
         ELSE <<s[i]>> \o CollapseSpaces(s, i + 1)

\* the class [.,;:!?%\)]
ClosingPunctuation ==
    {Ord("."), Ord(","), Ord(";"), Ord(":"), Ord("!"), Ord("?"), Ord("%"), Ord(")")}

\* re.sub(r"\s+([.,;:!?%\)])", r"\1", s)
RECURSIVE TightenBeforePunctuation(_, _)
TightenBeforePunctuation(s, i) ==
    IF i > Len(s) THEN <<>>
    ELSE LET j == SpaceRunEnd(s, i) IN
         IF j >= i /\ j + 1 <= Len(s) /\ s[j + 1] \in ClosingPunctuation
         THEN <<s[j + 1]>> \o TightenBeforePunctuation(s, j + 2)
         ELSE <<s[i]>> \o TightenBeforePunctuation(s, i + 1)

LeaveAfterParen(s, i) == From(s, i)

\* re.sub(r"\(\s+", "(", s)
RECURSIVE TightenAfterParen(_, _)
TightenAfterParen(s, i) ==
    IF i > Len(s) THEN <<>>
    ELSE LET j == SpaceRunEnd(s, i + 1) IN
         IF s[i] = Ord("(") /\ j >= i + 1
         THEN <<Ord("(")>> \o TightenAfterParen(s, j + 1)
         ELSE <<s[i]>> \o TightenAfterParen(s, i + 1)

RECURSIVE JoinHyphenAdjacent(_, _)
JoinHyphenAdjacent(s, i) ==
    IF i > Len(s) THEN <<>>
    ELSE LET j == SpaceRunEnd(s, i) IN
         IF j >= i /\ j + 1 <= Len(s) /\ s[j + 1] = Ord("-")
            /\ j + 2 <= Len(s) /\ IsWord(s[j + 2])
         THEN <<Ord("-"), s[j + 2]>> \o JoinHyphenAdjacent(s, j + 3)
         ELSE <<s[i]>> \o JoinHyphenAdjacent(s, i + 1)

\* re.sub(r"\s+-\s*(\w)", r"-\1", s)
RECURSIVE JoinHyphen(_, _)
JoinHyphen(s, i) ==
    IF i > Len(s) THEN <<>>
    ELSE LET j == SpaceRunEnd(s, i)
             k == SpaceRunEnd(s, j + 2) IN
         IF j >= i /\ j + 1 <= Len(s) /\ s[j + 1] = Ord("-")
            /\ k + 1 <= Len(s) /\ IsWord(s[k + 1])
         THEN <<Ord("-"), s[k + 1]>> \o JoinHyphen(s, k + 2)
         ELSE <<s[i]>> \o JoinHyphen(s, i + 1)

\* lines 105-109: the spacing passes, in the code's order, then strip()
FixSpacing(s) ==
    Strip(JoinHyphen(TightenAfterParen(TightenBeforePunctuation(
        CollapseSpaces(s, 1), 1), 1), 1))

correct_translation(m, t) ==
    LET r == FixPlaceholders(FindPlaceholders(m, 1), t) IN
    IF r.raised THEN Raised ELSE Returned(FixSpacing(r.value))

----------------------------------------------------------------------------
(* Bounds of the model.                                                    *)

\* longest raw text given to the codec
MaxLen == 4

\* most pieces a msgid, and a translation, is put together from
MaxMsgidPieces == 2

MaxTransPieces == 3

\* longest timeout and interval handed to wait_for_element, in ticks
MaxTimeout == 5

MaxInterval == 2

\* most failing calls of a probe that succeeds in the end
MaxFails == 6

\* most key events the user sends to one screen
MaxKeys == 2

\* longest translation whose spacing is corrected
MaxSpacingLen == 5

----------------------------------------------------------------------------
(* The components at rest: each specification below runs one component and *)
(* leaves the others as they are here.                                     *)

CodecIdle == text = <<>> /\ display = <<>> /\ decoded = <<>> /\ codecPc = "off"

CorrectorIdle ==
    msgid = <<>> /\ translation = <<>> /\ corrected = Returned(<<>>) /\ correctorPc = "off"

PollerIdle ==
    /\ timeout = 0 /\ interval = 0 /\ total_time = 0 /\ rounding = 0 /\ pollPc = "off"
    /\ pollResult = 0 /\ probes = 0 /\ sleeps = 0 /\ failsFirst = 0
    /\ probeError = "Exception"

NoEntry == [kind |-> "None"]

ScreenIdle ==
    /\ entry = NoEntry /\ idx = 0 /\ screenState = "off" /\ dismissed = <<>>
    /\ fields = <<>> /\ mounted = {} /\ handler = "off" /\ pending = <<>>
    /\ observed = <<>>

GuardIdle == guard = <<>>

----------------------------------------------------------------------------
(* The codec at work: a raw text is escaped for display and decoded back.  *)

\* characters every text of the model may hold
CoreAlphabet == {LF, BACKSLASH, Ord("n"), Ord("x"), Ord("4")}

\* characters of which a text of the model holds one kind at most
ExtraAlphabet ==
    {CR, TAB, BS, FF, VT, BEL, NUL, Ord("r"), Ord("t"), Ord("b"), Ord("f"), Ord("v"),
     Ord("a"), Ord("0"), Ord("A"), SPACE, 28}

RawTexts == UNION {StringsUpTo(CoreAlphabet \cup {e}, MaxLen) : e \in ExtraAlphabet}

InitCodec ==
    /\ text \in RawTexts
    /\ display = <<>> /\ decoded = <<>> /\ codecPc = "raw"
    /\ CorrectorIdle /\ PollerIdle /\ ScreenIdle /\ GuardIdle

Escape ==
    /\ codecPc = "raw"
    /\ display' = escape_control_chars(text)
    /\ codecPc' = "escaped"
    /\ UNCHANGED <<text, decoded, correctorVars, pollerVars, screenVars, guardVars>>

Unescape ==
    /\ codecPc = "escaped"
    /\ decoded' = unescape_control_chars(display)
    /\ codecPc' = "decoded"
    /\ UNCHANGED <<text, display, correctorVars, pollerVars, screenVars, guardVars>>

NextCodec == Escape \/ Unescape

SpecCodec == InitCodec /\ [][NextCodec]_vars

\* the decoder on its own: a display text from anywhere (typed by the user, or
\* written by another program) is decoded
DecodeCoreAlphabet == {BACKSLASH, Ord("x"), Ord("4"), Ord("A")}

DecodeExtraAlphabet ==
    {Ord("n"), Ord("r"), Ord("t"), Ord("b"), Ord("f"), Ord("v"), Ord("a"), Ord("0"),
     Ord("g"), LF}

DisplayTexts ==
    UNION {StringsUpTo(DecodeCoreAlphabet \cup {e}, MaxLen) : e \in DecodeExtraAlphabet}

InitDecode ==
    /\ display \in DisplayTexts
    /\ text = <<>> /\ decoded = <<>> /\ codecPc = "escaped"
    /\ CorrectorIdle /\ PollerIdle /\ ScreenIdle /\ GuardIdle

NextDecode == Unescape

SpecDecode == InitDecode /\ [][NextDecode]_vars

----------------------------------------------------------------------------
(* The corrector at work: one call of correct_translation.                 *)

\* a string literal, spelled as its code points
PhA == <<LBRACE, Ord("a"), RBRACE>>

PhB == <<LBRACE, Ord("b"), RBRACE>>

PhC == <<LBRACE, Ord("c"), RBRACE>>

\* {\n}: a placeholder whose body is a backslash and the letter n
PhBackslashN == <<LBRACE, BACKSLASH, Ord("n"), RBRACE>>

\* {\d}: a placeholder whose body is a backslash and the letter d
PhBackslashD == <<LBRACE, BACKSLASH, Ord("d"), RBRACE>>

MsgidPieces == {PhA, PhB, PhBackslashN, PhBackslashD, <<Ord("x"), SPACE>>}

TransPieces == {PhC, PhA, <<Ord("x")>>, <<SPACE>>, <<LBRACE>>}

\* the strings put together from at most n pieces of P
RECURSIVE Concats(_, _)
Concats(P, n) ==
    IF n = 0 THEN {<<>>}
    ELSE LET C == Concats(P, n - 1) IN C \cup {a \o p : a \in C, p \in P}

InitCorrector ==
    /\ msgid \in Concats(MsgidPieces, MaxMsgidPieces)
    /\ translation \in Concats(TransPieces, MaxTransPieces)
    /\ corrected = Returned(<<>>) /\ correctorPc = "called"
    /\ CodecIdle /\ PollerIdle /\ ScreenIdle /\ GuardIdle

Correct ==
    /\ correctorPc = "called"
    /\ corrected' = correct_translation(msgid, translation)
    /\ correctorPc' = "done"
    /\ UNCHANGED <<msgid, translation, codecVars, pollerVars, screenVars, guardVars>>

NextCorrector == Correct

SpecCorrector == InitCorrector /\ [][NextCorrector]_vars

\* the corrector on translations in need of spacing: every string of blanks,
\* hyphens, word characters, parentheses and punctuation, under a msgid with no
\* placeholder; and short translations with a token under a msgid with one
SpacingCoreAlphabet == {SPACE, Ord("-"), Ord("a"), Ord("("), Ord(".")}

SpacingExtraAlphabet ==
    {LF, TAB, Ord(")"), Ord(","), Ord("!"), Ord("%"), Ord("_"), Ord("4")}

SpacingTexts ==
    UNION {StringsUpTo(SpacingCoreAlphabet \cup {e}, MaxSpacingLen) :
               e \in SpacingExtraAlphabet}

SpacingPieces == {PhC, <<SPACE>>, <<Ord(".")>>, <<Ord("-")>>, <<Ord("a")>>, <<Ord("(")>>}

InitSpacing ==
    /\ \/ msgid = <<Ord("x")>> /\ translation \in SpacingTexts
       \/ /\ msgid \in {<<>>, PhA, PhBackslashN}
          /\ translation \in Concats(SpacingPieces, MaxTransPieces)
    /\ corrected = Returned(<<>>) /\ correctorPc = "called"
    /\ CodecIdle /\ PollerIdle /\ ScreenIdle /\ GuardIdle

SpecSpacing == InitSpacing /\ [][NextCorrector]_vars

----------------------------------------------------------------------------
(***************************************************************************)
(* wait_for_element.  The coroutine is at "enter" before line 213, at       *)
(* "test" before the while condition, at "probe" before the call of        *)
(* query_func, at "sleep" while suspended in asyncio.sleep, and ends       *)
(* "returned" or "raised".                                                 *)
(*                                                                         *)
(* timeout and interval are whole ticks.  total_time is a float that the   *)
(* loop adds interval to: it is kept as the exact sum in ticks, together   *)
(* with the sign of the rounding error the additions have left in it, an   *)
(* error far smaller than a tick.  A sum that is exactly timeout ticks is  *)
(* therefore below, at or above timeout as its rounding error says: ten    *)
(* additions of 0.1 make 0.9999999999999999, twenty make                   *)
(* 2.0000000000000004.                                                     *)
(***************************************************************************)

\* probes and sleeps record what the coroutine has done; they are no state of
\* the program, and stop counting at CountCap so that a loop of the program is
\* a loop of the model
CountCap == (IF MaxFails > MaxTimeout THEN MaxFails ELSE MaxTimeout) + 2

Count(n) == IF n < CountCap THEN n + 1 ELSE n

\* a probe that fails on every call the model can count
Never == CountCap + 1

\* the float comparison total_time < timeout
Below(t, r, limit) == t < limit \/ (t = limit /\ r < 0)

\* the rounding errors the addition total_time + interval can leave: 0.0 + x
\* and x + x are exact, as is adding 0.0
RoundingAfterAdd(t, r, i) ==
    IF i = 0 THEN {r}
    ELSE IF r = 0 /\ (t = 0 \/ t = i) THEN {0}
    ELSE {-1, 0, 1}

\* line 213
PollEnter ==
    /\ pollPc = "enter"
    /\ total_time' = 0 /\ rounding' = 0
    /\ pollPc' = "test"
    /\ UNCHANGED <<timeout, interval, pollResult, probes, sleeps, failsFirst, probeError>>

\* line 214, and line 221 when the condition is false
PollTest ==
    /\ pollPc = "test"
    /\ pollPc' = IF Below(total_time, rounding, timeout) THEN "probe" ELSE "raised"
    /\ UNCHANGED <<timeout, interval, total_time, rounding, pollResult, probes, sleeps,
                   failsFirst, probeError>>

\* the classes "except Exception" catches
CaughtByExceptException(kind) == kind = "Exception"

\* lines 215-217: the call of query_func, which returns (its value is the number
\* of the call) or raises; an exception that "except Exception" does not catch
\* leaves wait_for_element
PollProbe(ok) ==
    /\ pollPc = "probe"
    /\ probes' = Count(probes)
    /\ IF ok THEN pollPc' = "returned" /\ pollResult' = Count(probes)
       ELSE IF CaughtByExceptException(probeError)
            THEN pollPc' = "sleep" /\ pollResult' = pollResult
            ELSE pollPc' = "propagated" /\ pollResult' = pollResult
    /\ UNCHANGED <<timeout, interval, total_time, rounding, sleeps, failsFirst, probeError>>

PollWakeTwice ==
    /\ pollPc = "sleep"
    /\ sleeps' = Count(sleeps)
    /\ total_time' = total_time + 2 * interval
    /\ rounding' \in RoundingAfterAdd(total_time, rounding, interval)
    /\ pollPc' = "test"
    /\ UNCHANGED <<timeout, interval, pollResult, probes, failsFirst, probeError>>

\* lines 218-219: the sleep is over, the interval is added
PollWake ==
    /\ pollPc = "sleep"
    /\ sleeps' = Count(sleeps)
    /\ total_time' = total_time + interval
    /\ rounding' \in RoundingAfterAdd(total_time, rounding, interval)
    /\ pollPc' = "test"
    /\ UNCHANGED <<timeout, interval, pollResult, probes, failsFirst, probeError>>

\* the probe of the poller's own specification: its first failsFirst calls fail
ProbeSucceeds == probes >= failsFirst

InitPoller ==
    /\ timeout \in 0..MaxTimeout
    /\ interval \in 0..MaxInterval
    /\ failsFirst \in {Never} \cup 0..MaxFails
    /\ probeError = "Exception"
    /\ total_time = 0 /\ rounding = 0
    /\ pollPc = "enter" /\ pollResult = 0 /\ probes = 0 /\ sleeps = 0
    /\ CodecIdle /\ CorrectorIdle /\ ScreenIdle /\ GuardIdle

Enter == PollEnter /\ UNCHANGED <<codecVars, correctorVars, screenVars, guardVars>>

Test == PollTest /\ UNCHANGED <<codecVars, correctorVars, screenVars, guardVars>>

Probe == PollProbe(ProbeSucceeds) /\ UNCHANGED <<codecVars, correctorVars, screenVars, guardVars>>

Wake == PollWake /\ UNCHANGED <<codecVars, correctorVars, screenVars, guardVars>>

NextPoller == Enter \/ Test \/ Probe \/ Wake

SpecPoller == InitPoller /\ [][NextPoller]_vars

\* the event loop resumes a coroutine that can run
FairSpecPoller == SpecPoller /\ WF_vars(NextPoller)

\* the poller with a probe whose failing calls raise an exception of either
\* kind: a subclass of Exception, or one of BaseException only (such as
\* asyncio.CancelledError, KeyboardInterrupt, SystemExit)
InitProbeFailures ==
    /\ timeout \in 0..MaxTimeout
    /\ interval \in 0..MaxInterval
    /\ failsFirst \in {Never} \cup 0..MaxFails
    /\ probeError \in {"Exception", "BaseException"}
    /\ total_time = 0 /\ rounding = 0
    /\ pollPc = "enter" /\ pollResult = 0 /\ probes = 0 /\ sleeps = 0
    /\ CodecIdle /\ CorrectorIdle /\ ScreenIdle /\ GuardIdle

SpecProbeFailures == InitProbeFailures /\ [][NextPoller]_vars

PollDone == pollPc \in {"returned", "raised"}

----------------------------------------------------------------------------
(* POEditScreen.  The catalog entry is a record; msgstr_plural maps the    *)
(* plural index to its translation.  The reviewer note, the review tag and *)
(* the manual-edit markers live in the entry's comment, which Note,        *)
(* POFileEntryTag and write_new_tcomment read and write.                   *)

\* the arguments of wait_for_element the screen leaves to their defaults, in
\* ticks of a tenth of a second
DefaultTimeout == 50

DefaultInterval == 1

\* idx of a singular edit or of a filter
None == -1

INPUT == "poedit-input"

COMMENT == "poedit-comment"

REVIEWED == "reviewed"

Cancelled == [kind |-> "Cancelled"]

Filtered(pattern) == [kind |-> "Filtered", pattern |-> pattern]

Updated(m, n) == [kind |-> "Updated", msgstr |-> m, tag |-> REVIEWED, note |-> n]

\* the translation compose shows and update_cell writes
Target(e, i) == IF i = None THEN e.msgstr ELSE e.msgstr_plural[i]

\* Note.parse_entry(entry)
NoteParseEntry(e) == e.note

\* Note(text).update_entry(entry)
NoteUpdateEntry(e, n) == [e EXCEPT !.note = n]

\* POFileEntryTag.REVIEWED.apply(entry)
TagReviewedApply(e) == [e EXCEPT !.reviewed = TRUE]

\* write_new_tcomment(entry, " [Manually edited on {timestamp}]")
write_new_tcomment(e) == [e EXCEPT !.markers = @ + 1]

Idle == [pc |-> "idle", new_val |-> <<>>]

\* no action of the screen is running, or the running one is suspended in
\* asyncio.sleep: the points at which the event loop runs something else
AtYield == handler.pc = "idle" \/ pollPc = "sleep"

\* the widget the running action is looking up
Wanted == IF handler.pc = "update_cell_comment" THEN COMMENT ELSE INPUT

\* self.dismiss(result)
Dismiss(result) ==
    /\ screenState' = "Closed"
    /\ dismissed' = Append(dismissed, result)

\* the call of wait_for_element with the default timeout and interval
CallWaitForElement ==
    /\ timeout' = DefaultTimeout /\ interval' = DefaultInterval
    /\ pollPc' = "enter" /\ pollResult' = 0 /\ probes' = 0 /\ sleeps' = 0
    /\ UNCHANGED <<total_time, rounding, failsFirst, probeError>>
    /\ observed' = [observed EXCEPT !.lookups = @ + 1]

\* compose: the widgets and the text they start with
Compose ==
    /\ screenState = "Constructed"
    /\ screenState' = "Composing"
    /\ fields' = IF entry = NoEntry
                 THEN (INPUT :> <<Ord("*")>>)
                 ELSE (INPUT :> escape_control_chars(Target(entry, idx))) @@
                      (COMMENT :> escape_control_chars(NoteParseEntry(entry)))
    /\ UNCHANGED <<entry, idx, dismissed, mounted, handler, pending, observed>>
    /\ UNCHANGED <<codecVars, correctorVars, pollerVars, guardVars>>

\* a composed widget is attached and query_one finds it from now on
Mount(w) ==
    /\ screenState \in {"Composing", "Submitting"} /\ AtYield
    /\ w \in DOMAIN fields /\ w \notin mounted
    /\ mounted' = mounted \cup {w}
    /\ UNCHANGED <<entry, idx, screenState, dismissed, fields, handler, pending, observed>>
    /\ UNCHANGED <<codecVars, correctorVars, pollerVars, guardVars>>

\* the user replaces the text of a field
TypeText(w, s) ==
    /\ screenState = "Composing" /\ handler.pc = "idle" /\ pending = <<>>
    /\ w \in mounted /\ fields[w] # s
    /\ fields' = [fields EXCEPT ![w] = s]
    /\ observed' = [observed EXCEPT !.typed = @ \cup {w}]
    /\ UNCHANGED <<entry, idx, screenState, dismissed, mounted, handler, pending>>
    /\ UNCHANGED <<codecVars, correctorVars, pollerVars, guardVars>>

\* a key event for the screen is queued
PressKey(k) ==
    /\ screenState \in {"Composing", "Submitting"} /\ AtYield
    /\ observed.keys < MaxKeys
    /\ pending' = Append(pending, k)
    /\ observed' = [observed EXCEPT !.keys = @ + 1]
    /\ UNCHANGED <<entry, idx, screenState, dismissed, fields, mounted, handler>>
    /\ UNCHANGED <<codecVars, correctorVars, pollerVars, guardVars>>

\* BINDINGS: the action a key runs
BINDINGS == ("enter" :> "submit") @@ ("escape" :> "cancel")

CanRunReentrant(action) ==
    /\ screenState \in {"Composing", "Submitting"} /\ AtYield
    /\ pending # <<>> /\ BINDINGS[Head(pending)] = action

\* the next queued key can be handled: the screen is open and runs no action
\* (the action of a binding is awaited by the loop that takes the keys, so the
\* next key is taken when the action has ended)
CanRun(action) ==
    /\ screenState = "Composing" /\ handler.pc = "idle"
    /\ pending # <<>> /\ BINDINGS[Head(pending)] = action

action_cancel_clearing ==
    /\ CanRun("cancel")
    /\ pending' = Tail(pending)
    /\ Dismiss(Cancelled)
    /\ entry' = IF entry = NoEntry THEN entry ELSE [entry EXCEPT !.msgstr = <<>>]
    /\ UNCHANGED <<idx, fields, mounted, handler, observed>>
    /\ UNCHANGED <<codecVars, correctorVars, pollerVars, guardVars>>

\* action_cancel: dismiss with no result
action_cancel ==
    /\ CanRun("cancel")
    /\ pending' = Tail(pending)
    /\ Dismiss(Cancelled)
    /\ UNCHANGED <<entry, idx, fields, mounted, handler, observed>>
    /\ UNCHANGED <<codecVars, correctorVars, pollerVars, guardVars>>

\* action_submit up to its first suspension: filter_cells or update_cell is
\* entered and calls wait_for_element for the input field
action_submit ==
    /\ CanRun("submit")
    /\ pending' = Tail(pending)
    /\ screenState' = "Submitting"
    /\ handler' = [pc |-> IF entry = NoEntry THEN "filter_cells" ELSE "update_cell_input",
                   new_val |-> <<>>]
    /\ CallWaitForElement
    /\ UNCHANGED <<entry, idx, dismissed, fields, mounted>>
    /\ UNCHANGED <<codecVars, correctorVars, guardVars>>

\* the steps of wait_for_element inside a running action; its probe is
\* query_one, which finds the wanted widget once it is mounted
Waiting == handler.pc \in {"filter_cells", "update_cell_input", "update_cell_comment"}

WaitEnter == Waiting /\ PollEnter /\ UNCHANGED <<codecVars, correctorVars, screenVars, guardVars>>

WaitTest == Waiting /\ PollTest /\ UNCHANGED <<codecVars, correctorVars, screenVars, guardVars>>

WaitProbe ==
    /\ Waiting /\ PollProbe(Wanted \in mounted)
    /\ UNCHANGED <<codecVars, correctorVars, screenVars, guardVars>>

WaitWake == Waiting /\ PollWake /\ UNCHANGED <<codecVars, correctorVars, screenVars, guardVars>>

filter_cells_unescaping ==
    /\ handler.pc = "filter_cells" /\ pollPc = "returned"
    /\ Dismiss(Filtered(unescape_control_chars(Strip(fields[INPUT]))))
    /\ handler' = Idle
    /\ pollPc' = "off"
    /\ UNCHANGED <<timeout, interval, total_time, rounding, pollResult, probes, sleeps,
                   failsFirst, probeError>>
    /\ UNCHANGED <<entry, idx, fields, mounted, pending, observed>>
    /\ UNCHANGED <<codecVars, correctorVars, guardVars>>

\* filter_cells after the input field is found
filter_cells ==
    /\ handler.pc = "filter_cells" /\ pollPc = "returned"
    /\ Dismiss(Filtered(Strip(fields[INPUT])))
    /\ handler' = Idle
    /\ pollPc' = "off"
    /\ UNCHANGED <<timeout, interval, total_time, rounding, pollResult, probes, sleeps,
                   failsFirst, probeError>>
    /\ UNCHANGED <<entry, idx, fields, mounted, pending, observed>>
    /\ UNCHANGED <<codecVars, correctorVars, guardVars>>

update_cell_input_corrected ==
    /\ handler.pc = "update_cell_input" /\ pollPc = "returned"
    /\ LET new_val == Strip(fields[INPUT])
           orig_val == correct_translation(entry.msgid, unescape_control_chars(new_val)).value
       IN  /\ entry' = IF idx = None THEN [entry EXCEPT !.msgstr = orig_val]
                       ELSE [entry EXCEPT !.msgstr_plural[idx] = orig_val]
           /\ handler' = [pc |-> "update_cell_comment", new_val |-> new_val]
    /\ CallWaitForElement
    /\ UNCHANGED <<idx, screenState, dismissed, fields, mounted, pending>>
    /\ UNCHANGED <<codecVars, correctorVars, guardVars>>

update_cell_input_singular ==
    /\ handler.pc = "update_cell_input" /\ pollPc = "returned"
    /\ LET new_val == Strip(fields[INPUT])
           orig_val == unescape_control_chars(new_val)
       IN  /\ entry' = [entry EXCEPT !.msgstr = orig_val]
           /\ handler' = [pc |-> "update_cell_comment", new_val |-> new_val]
    /\ CallWaitForElement
    /\ UNCHANGED <<idx, screenState, dismissed, fields, mounted, pending>>
    /\ UNCHANGED <<codecVars, correctorVars, guardVars>>

\* update_cell, lines 169-176: the input field is found, its text is written to
\* the entry, and wait_for_element is called for the comment field
update_cell_input ==
    /\ handler.pc = "update_cell_input" /\ pollPc = "returned"
    /\ LET new_val == Strip(fields[INPUT])
           orig_val == unescape_control_chars(new_val)
       IN  /\ entry' = IF idx = None THEN [entry EXCEPT !.msgstr = orig_val]
                       ELSE [entry EXCEPT !.msgstr_plural[idx] = orig_val]
           /\ handler' = [pc |-> "update_cell_comment", new_val |-> new_val]
    /\ CallWaitForElement
    /\ UNCHANGED <<idx, screenState, dismissed, fields, mounted, pending>>
    /\ UNCHANGED <<codecVars, correctorVars, guardVars>>

\* update_cell, lines 176-181: the comment field is found, the note, the tag and
\* the marker are written, and the screen is dismissed with the result
update_cell_comment ==
    /\ handler.pc = "update_cell_comment" /\ pollPc = "returned"
    /\ LET comment_val == Strip(fields[COMMENT]) IN
           /\ entry' = write_new_tcomment(TagReviewedApply(
                           NoteUpdateEntry(entry, unescape_control_chars(comment_val))))
           /\ Dismiss(Updated(handler.new_val, comment_val))
    /\ handler' = Idle
    /\ pollPc' = "off"
    /\ UNCHANGED <<timeout, interval, total_time, rounding, pollResult, probes, sleeps,
                   failsFirst, probeError>>
    /\ UNCHANGED <<idx, fields, mounted, pending, observed>>
    /\ UNCHANGED <<codecVars, correctorVars, guardVars>>

\* wait_for_element raised: the ValueError ends action_submit, the screen stays
\* open
submit_failed ==
    /\ Waiting /\ pollPc = "raised"
    /\ handler' = Idle
    /\ screenState' = "Composing"
    /\ pollPc' = "off"
    /\ observed' = [observed EXCEPT !.failures = @ + 1]
    /\ UNCHANGED <<timeout, interval, total_time, rounding, pollResult, probes, sleeps,
                   failsFirst, probeError>>
    /\ UNCHANGED <<entry, idx, dismissed, fields, mounted, pending>>
    /\ UNCHANGED <<codecVars, correctorVars, guardVars>>

\* a queued key is taken after the screen was dismissed: its bindings are no
\* longer active, the key goes elsewhere
key_after_close ==
    /\ screenState = "Closed" /\ pending # <<>>
    /\ pending' = Tail(pending)
    /\ UNCHANGED <<entry, idx, screenState, dismissed, fields, mounted, handler, observed>>
    /\ UNCHANGED <<codecVars, correctorVars, pollerVars, guardVars>>

\* the translations, notes and typed texts of the model
TextA == <<Ord("a")>>

TextSpaceA == <<SPACE, Ord("a")>>

TextALinefeed == <<Ord("a"), LF, Ord("b")>>

TextBackslashN == <<BACKSLASH, Ord("n")>>

TextTypedPadded == <<SPACE, Ord("x"), BACKSLASH, Ord("t"), SPACE>>

Translations == {<<>>, TextSpaceA, TextALinefeed, TextBackslashN}

PluralTranslations == {[i \in 0..1 |-> IF i = 0 THEN TextA ELSE TextALinefeed]}

Notes == {TextA}

TypedTexts == (INPUT :> {PhC, TextTypedPadded}) @@ (COMMENT :> {TextTypedPadded})

Entries ==
    [kind : {"POEntry"}, msgid : {PhA}, msgid_plural : {PhA \o PhB},
     msgstr : Translations, msgstr_plural : PluralTranslations,
     note : Notes, reviewed : {FALSE}, markers : {0}]

\* the screen after __init__
Init ==
    /\ \/ entry = NoEntry /\ idx = None
       \/ entry \in Entries /\ idx \in {None, 0, 1}
    /\ screenState = "Constructed" /\ dismissed = <<>>
    /\ fields = <<>> /\ mounted = {} /\ handler = Idle /\ pending = <<>>
    /\ observed = [entry0 |-> entry, typed |-> {}, keys |-> 0, lookups |-> 0,
                   failures |-> 0]
    /\ PollerIdle
    /\ CodecIdle /\ CorrectorIdle /\ GuardIdle

Next ==
    \/ Compose
    \/ \E w \in {INPUT, COMMENT} : Mount(w)
    \/ \E w \in {INPUT, COMMENT} : \E s \in TypedTexts[w] : TypeText(w, s)
    \/ \E k \in DOMAIN BINDINGS : PressKey(k)
    \/ action_cancel
    \/ action_submit
    \/ WaitEnter \/ WaitTest \/ WaitProbe \/ WaitWake
    \/ filter_cells
    \/ update_cell_input
    \/ update_cell_comment
    \/ submit_failed
    \/ key_after_close

Spec == Init /\ [][Next]_vars

----------------------------------------------------------------------------
(* NotifyException.  A notifier and a logger are shared by the blocks that  *)
(* are run under the guard, one after the other; the body of a block ends   *)
(* normally or raises an exception.  An exception has a type, the text      *)
(* str() gives, and the truth value "if exc_instance" sees: True unless its *)
(* class defines __bool__ or __len__ otherwise.                             *)

\* most blocks run under one guard
MaxBlocks == 2

NoException == [type |-> "None"]

Messages == {"", "boom", "[b]x[/b]", "{error}"}

Exceptions ==
    [type : {"ValueError", "KeyboardInterrupt"}, message : Messages, truthy : {TRUE}]
    \cup [type : {"EmptyError"}, message : Messages, truthy : {FALSE}]

\* bool(exc_instance), exc_instance being None when the body raised nothing
Truthy(e) == e # NoException /\ e.truthy

\* the call of notifier.notify, lines 50-56
Notification(e) ==
    [message |-> "An error occurred: " \o e.message, title |-> "Unexpected Error",  \* without its pictograph
     severity |-> "error", timeout |-> None, markup |-> FALSE]

\* the call of logger.error, lines 57-65
LogRecord(e) ==
    [level |-> "error", message |-> "An error occurred",
     context |-> "NotifyException.__exit__", error |-> e.message, type |-> e.type]

InitGuard ==
    /\ guard = [pc |-> "outside", exc |-> NoException, blocks |-> 0, raised |-> <<>>,
                notified |-> <<>>, logged |-> <<>>]
    /\ CodecIdle /\ CorrectorIdle /\ PollerIdle /\ ScreenIdle

\* the with statement is entered and its body runs to the end or to a raise
GuardedBlock(e) ==
    /\ guard.pc = "outside" /\ guard.blocks < MaxBlocks
    /\ guard' = [guard EXCEPT !.pc = "exit", !.exc = e, !.blocks = @ + 1,
                              !.raised = IF e = NoException THEN @ ELSE Append(@, e)]
    /\ UNCHANGED <<codecVars, correctorVars, pollerVars, screenVars>>

\* __exit__, lines 43-66: a true return value suppresses the exception and the
\* statement after the block runs; otherwise the exception, if any, goes on
NotifyException_exit ==
    /\ guard.pc = "exit"
    /\ guard' =
          IF Truthy(guard.exc)
          THEN [guard EXCEPT !.pc = "outside",
                             !.notified = Append(@, Notification(guard.exc)),
                             !.logged = Append(@, LogRecord(guard.exc))]
          ELSE [guard EXCEPT !.pc = IF guard.exc = NoException THEN "outside"
                                    ELSE "propagated"]
    /\ UNCHANGED <<codecVars, correctorVars, pollerVars, screenVars>>

NextGuard == (\E e \in Exceptions \cup {NoException} : GuardedBlock(e)) \/ NotifyException_exit

SpecGuard == InitGuard /\ [][NextGuard]_vars

----------------------------------------------------------------------------
(* Properties of the codec.                                                *)

\* C1: decoding the escaped form of a raw text gives the raw text back, for
\* every text of control characters, printable characters and backslashes
CodecRoundTrip == codecPc = "decoded" => decoded = text

\* a literal backslash followed by x and two hexadecimal digits has made the trip
CodecRoundTripWitness ==
    /\ codecPc = "decoded"
    /\ text = <<BACKSLASH, Ord("x"), Ord("4"), Ord("4")>>
    /\ display = <<BACKSLASH, BACKSLASH, Ord("x"), Ord("4"), Ord("4")>>

\* the letter that follows the backslash in the escape of a character, as the
\* escape table of the codec's description gives it
EscapeLetter(c) ==
    CASE c = LF -> Ord("n") [] c = CR -> Ord("r") [] c = TAB -> Ord("t")
      [] c = BS -> Ord("b") [] c = FF -> Ord("f") [] c = VT -> Ord("v")
      [] c = BEL -> Ord("a") [] c = NUL -> Ord("0") [] c = BACKSLASH -> BACKSLASH

Escaped == {LF, CR, TAB, BS, FF, VT, BEL, NUL, BACKSLASH}

\* d is x with each escaped character replaced by its two-character escape and
\* every other character in its place
RECURSIVE EncodedAs(_, _)
EncodedAs(x, d) ==
    IF x = <<>> THEN d = <<>>
    ELSE IF Head(x) \in Escaped
         THEN /\ Len(d) >= 2 /\ d[1] = BACKSLASH /\ d[2] = EscapeLetter(Head(x))
              /\ EncodedAs(Tail(x), From(d, 3))
         ELSE /\ Len(d) >= 1 /\ d[1] = Head(x)
              /\ EncodedAs(Tail(x), Tail(d))

\* C14: the escaped form of a raw text holds none of the eight control
\* characters; it is the raw text with each of them and each backslash replaced
\* by its two-character escape, every other character unchanged and in order,
\* so that no replacement is a hexadecimal escape
EncodeDisplaySafe ==
    codecPc \in {"escaped", "decoded"} =>
        /\ \A i \in 1..Len(display) : display[i] \notin Escaped \ {BACKSLASH}
        /\ EncodedAs(text, display)
        /\ Len(display) = Len(text) + Cardinality({i \in 1..Len(text) : text[i] \in Escaped})

\* a linefeed, a backslash, a separator control character the codec leaves
\* alone and a letter have been escaped
EncodeDisplaySafeWitness ==
    /\ codecPc = "escaped"
    /\ text = <<LF, BACKSLASH, 28, Ord("x")>>
    /\ display = <<BACKSLASH, Ord("n"), BACKSLASH, BACKSLASH, 28, Ord("x")>>

\* the character an escape letter stands for
EscapedBy(l) == CHOOSE c \in Escaped : EscapeLetter(c) = l

\* the left-to-right decoding of the description: a two-character escape, else
\* a backslash, x and two hexadecimal digits, else the character as it is
RECURSIVE DecodedAs(_)
DecodedAs(d) ==
    IF d = <<>> THEN <<>>
    ELSE IF d[1] = BACKSLASH /\ Len(d) >= 2
            /\ d[2] \in {EscapeLetter(c) : c \in Escaped}
         THEN <<EscapedBy(d[2])>> \o DecodedAs(From(d, 3))
    ELSE IF d[1] = BACKSLASH /\ Len(d) >= 4 /\ d[2] = Ord("x")
            /\ IsHexDigit(d[3]) /\ IsHexDigit(d[4])
         THEN <<16 * HexValue(d[3]) + HexValue(d[4])>> \o DecodedAs(From(d, 5))
    ELSE <<d[1]>> \o DecodedAs(Tail(d))

\* C15: decoding goes left to right over matches that do not overlap; each of
\* the nine two-character escapes gives its character, backslash-x and two
\* hexadecimal digits of either case give the character of that code, any
\* other backslash stays as it is, and every display text is decoded
UnescapeSemantics ==
    codecPc = "decoded" =>
        /\ decoded = DecodedAs(display)
        /\ Len(decoded) <= Len(display)
        /\ (\A i \in 1..Len(display) : display[i] # BACKSLASH) => decoded = display

\* an upper-case hexadecimal escape, and a backslash before a letter that is
\* no escape
UnescapeSemanticsWitness ==
    /\ codecPc = "decoded"
    /\ display = <<BACKSLASH, Ord("x"), Ord("4"), Ord("A")>>
    /\ decoded = <<74>>

----------------------------------------------------------------------------
(* Properties of the corrector.                                            *)

\* C3: when the translation holds at least as many placeholder-shaped tokens
\* as the msgid, the i-th token of the string the call returns is the i-th
\* token of the msgid, character for character
PlaceholderPreservation ==
    (correctorPc = "done" /\ ~corrected.raised) =>
        LET P == FindPlaceholders(msgid, 1)
            T == FindPlaceholders(translation, 1)
            R == FindPlaceholders(corrected.value, 1)
        IN  Len(T) >= Len(P) =>
                /\ Len(R) >= Len(P)
                /\ \A i \in 1..Len(P) : R[i] = P[i]

\* C4: correct_translation returns a string for every msgid and translation,
\* it never raises
CorrectorTotal == correctorPc = "done" => ~corrected.raised

\* C16: the string correct_translation returns has no whitespace at its
\* ends, no two whitespace characters in a row, no whitespace before
\* . , ; : ! ? % ) and none after an opening parenthesis
SpacingNormalForm ==
    (correctorPc = "done" /\ ~corrected.raised) =>
        LET r == corrected.value IN
        /\ r # <<>> => (~IsSpace(r[1]) /\ ~IsSpace(r[Len(r)]))
        /\ \A i \in 1..(Len(r) - 1) :
              /\ ~(IsSpace(r[i]) /\ IsSpace(r[i + 1]))
              /\ ~(IsSpace(r[i]) /\ r[i + 1] \in
                       {Ord("."), Ord(","), Ord(";"), Ord(":"), Ord("!"), Ord("?"),
                        Ord("%"), Ord(")")})
              /\ ~(r[i] = Ord("(") /\ IsSpace(r[i + 1]))

\* a translation with a blank before a full stop, after a parenthesis and at
\* its end came back tight
SpacingNormalFormWitness ==
    /\ correctorPc = "done" /\ ~corrected.raised
    /\ translation = <<Ord("("), SPACE, Ord("a"), SPACE, Ord(".")>>
    /\ corrected.value = <<Ord("("), Ord("a"), Ord(".")>>

\* s is a non-empty string of word characters
IsWordString(s) == s # <<>> /\ \A i \in 1..Len(s) : IsWord(s[i])

\* C17: two words with blank, hyphen, blank between them come back joined by
\* the bare hyphen, under a msgid with no placeholder; and no returned string
\* has whitespace before a hyphen that a word character follows, at once or
\* after whitespace
HyphenJoining ==
    (correctorPc = "done" /\ ~corrected.raised) =>
        LET t == translation
            r == corrected.value
        IN
        /\ FindPlaceholders(msgid, 1) = <<>> =>
              \A p \in 2..(Len(t) - 3) :
                  ( /\ SubSeq(t, p, p + 2) = <<SPACE, Ord("-"), SPACE>>
                    /\ IsWordString(SubSeq(t, 1, p - 1))
                    /\ IsWordString(From(t, p + 3)) )
                  => r = SubSeq(t, 1, p - 1) \o <<Ord("-")>> \o From(t, p + 3)
        /\ \A i \in 1..(Len(r) - 2) :
              (IsSpace(r[i]) /\ r[i + 1] = Ord("-"))
                  => LET k == SpaceRunEnd(r, i + 2) IN ~(k + 1 <= Len(r) /\ IsWord(r[k + 1]))

\* "a - 4" came back as "a-4"
HyphenJoiningWitness ==
    /\ correctorPc = "done" /\ ~corrected.raised
    /\ msgid = <<Ord("x")>>
    /\ translation = <<Ord("a"), SPACE, Ord("-"), SPACE, Ord("4")>>
    /\ corrected.value = <<Ord("a"), Ord("-"), Ord("4")>>

----------------------------------------------------------------------------
(* Properties of wait_for_element.                                         *)

\* C5: the probe is called at least once, before any suspension and before
\* the not-found error, whatever the timeout and the interval
FirstProbeImmediate == (sleeps > 0 \/ PollDone) => probes >= 1

\* ceil(t / i) for i > 0
CeilDiv(t, i) == (t + i - 1) \div i

\* C6: every call ends, returning or raising, whatever the probe, the timeout
\* and the interval; with a positive interval it makes at most
\* ceil(timeout / interval) probes
PollerTerminates ==
    /\ <>PollDone
    /\ [](interval > 0 => probes <= CeilDiv(timeout, interval))

\* C7: the not-found error is raised only when no probe has succeeded and the
\* time slept, sleeps * interval, has reached the timeout; and once it has
\* reached the timeout no probe is made
TimeoutOnlyWhenDue ==
    /\ pollPc = "raised" => (pollResult = 0 /\ sleeps * interval >= timeout)
    /\ pollPc = "probe" => sleeps * interval < timeout

\* a probe that always fails has been given up after several sleeps
TimeoutOnlyWhenDueWitness ==
    pollPc = "raised" /\ failsFirst = Never /\ sleeps >= 2 /\ probes = sleeps

\* C8: a probe that fails k times and then succeeds, with k * interval <
\* timeout, makes the call return the value of call k + 1 after exactly k
\* sleeps, and nothing is done after the return
SuccessAfterFailures ==
    /\ [](PollDone /\ failsFirst # Never /\ failsFirst * interval < timeout
            => /\ pollPc = "returned"
               /\ pollResult = failsFirst + 1
               /\ probes = failsFirst + 1
               /\ sleeps = failsFirst)
    /\ [][pollPc # "returned"]_vars

\* two failures, then a success
SuccessAfterFailuresWitness ==
    pollPc = "returned" /\ failsFirst = 2 /\ sleeps = 2 /\ pollResult = 3 /\ interval > 0

----------------------------------------------------------------------------
(* Properties of POEditScreen.                                             *)

\* the result the screen was dismissed with
Result == dismissed[Len(dismissed)]

ClosedWith(kind) == screenState = "Closed" /\ dismissed # <<>> /\ Result.kind = kind

\* C2: an edit submitted with the text of the translation field as compose
\* filled it leaves the edited translation as it was stored, whatever it holds
UntouchedEditRoundTrip ==
    (ClosedWith("Updated") /\ INPUT \notin observed.typed)
        => Target(entry, idx) = Target(observed.entry0, idx)

\* the step that handles a queued Escape
CancelStep ==
    /\ screenState = "Composing" /\ handler.pc = "idle"
    /\ pending # <<>> /\ Head(pending) = "escape" /\ pending' = Tail(pending)

\* C9: handling Escape on an open screen, in edit or filter mode, closes it
\* with the Cancelled result, looks up no field and changes nothing of the entry
CancelLeavesEntry ==
    [][CancelStep =>
          /\ screenState' = "Closed"
          /\ dismissed' = Append(dismissed, Cancelled)
          /\ entry' = entry
          /\ observed'.lookups = observed.lookups
          /\ UNCHANGED pollerVars]_vars

\* an edit was cancelled after the user had typed into the translation field
CancelLeavesEntryWitness ==
    /\ ClosedWith("Cancelled") /\ entry # NoEntry
    /\ INPUT \in observed.typed /\ observed.lookups = 0
    /\ entry = observed.entry0

\* C10: an edit that closes with Updated carries the stripped, still escaped
\* texts of the two fields and the reviewed tag; the edited translation and the
\* note are those texts unescaped, the entry is tagged reviewed and has one
\* marker more; the corrector has no part in it
EditSubmitResult ==
    ClosedWith("Updated") =>
        /\ Result.msgstr = Strip(fields[INPUT])
        /\ Result.note = Strip(fields[COMMENT])
        /\ Result.tag = REVIEWED
        /\ Target(entry, idx) = unescape_control_chars(Result.msgstr)
        /\ NoteParseEntry(entry) = unescape_control_chars(Result.note)
        /\ entry.reviewed
        /\ entry.markers = observed.entry0.markers + 1

\* the user typed {c} for the msgid {a} and a padded note with an escape; {c}
\* is stored although the corrector would make it {a}
EditSubmitResultWitness ==
    /\ ClosedWith("Updated") /\ idx = None
    /\ fields[INPUT] = PhC /\ fields[COMMENT] = TextTypedPadded
    /\ entry.msgstr = PhC
    /\ correct_translation(entry.msgid, PhC) = Returned(PhA)
    /\ Result.note = <<Ord("x"), BACKSLASH, Ord("t")>>
    /\ entry.note = <<Ord("x"), TAB>>

\* C11: a screen constructed with no entry closes, on Submit, with Filtered and
\* the stripped text of its field, escapes left as typed; it has no entry and no
\* note field, and never runs update_cell
FilterSubmitResult ==
    /\ ClosedWith("Filtered") =>
          /\ Result.pattern = Strip(fields[INPUT])
          /\ observed.entry0 = NoEntry
          /\ observed.lookups >= 1
    /\ observed.entry0 = NoEntry =>
          /\ entry = NoEntry
          /\ COMMENT \notin DOMAIN fields
          /\ handler.pc \in {"idle", "filter_cells"}
          /\ dismissed # <<>> => Result.kind \in {"Filtered", "Cancelled"}

\* a padded pattern with a typed backslash and t was submitted: the padding is
\* gone, the two characters of the escape are still two
FilterSubmitResultWitness ==
    /\ ClosedWith("Filtered")
    /\ fields[INPUT] = TextTypedPadded
    /\ Result.pattern = <<Ord("x"), BACKSLASH, Ord("t")>>
    /\ unescape_control_chars(Result.pattern) # Result.pattern

\* a step that takes a queued key
KeyTaken == pending # <<>> /\ pending' = Tail(pending)

SubmitAllOrNothing ==
    /\ (handler.pc = "idle" /\ ~ClosedWith("Updated")) => entry = observed.entry0
    /\ screenState \in {"Composing", "Submitting"} => dismissed = <<>>

\* C19: an edit that closed with Updated has written the singular translation
\* alone when idx is None, and plural slot idx alone otherwise; the message ids
\* are as they were
EditTargetFrame ==
    ClosedWith("Updated") =>
        LET e0 == observed.entry0 IN
        /\ entry.msgid = e0.msgid /\ entry.msgid_plural = e0.msgid_plural
        /\ DOMAIN entry.msgstr_plural = DOMAIN e0.msgstr_plural
        /\ idx = None => entry.msgstr_plural = e0.msgstr_plural
        /\ idx # None =>
              /\ entry.msgstr = e0.msgstr
              /\ \A j \in DOMAIN e0.msgstr_plural \ {idx} :
                    entry.msgstr_plural[j] = e0.msgstr_plural[j]

\* plural slot 1 was edited: it holds the typed text, slot 0 and the singular
\* translation hold what they held
EditTargetFrameWitness ==
    /\ ClosedWith("Updated") /\ idx = 1
    /\ INPUT \in observed.typed
    /\ entry.msgstr_plural[1] = PhC /\ observed.entry0.msgstr_plural[1] = TextALinefeed
    /\ entry.msgstr_plural[0] = TextA
    /\ entry.msgstr = TextSpaceA

----------------------------------------------------------------------------
(* Properties of NotifyException.                                          *)

\* C13: no exception raised in a guarded block leaves the block, and after
\* every block the notifier holds one error notification (the exception's
\* message, markup off, timeout None) and the logger one error record for each
\* exception raised so far, and none for a block that raised nothing
GuardNotifiesOnce ==
    /\ guard.pc # "propagated"
    /\ guard.pc = "outside" =>
          /\ Len(guard.notified) = Len(guard.raised)
          /\ Len(guard.logged) = Len(guard.raised)
          /\ \A i \in 1..Len(guard.notified) :
                /\ guard.notified[i].message = "An error occurred: " \o guard.raised[i].message
                /\ guard.notified[i].severity = "error"
                /\ guard.notified[i].markup = FALSE
                /\ guard.notified[i].timeout = None
                /\ guard.logged[i].level = "error"

----------------------------------------------------------------------------
(* Properties of the poller's probe failures.                              *)

\* C20: a failing probe, whatever it raises, is followed by a sleep and a
\* retry; wait_for_element ends only by returning or by raising its own
\* not-found error
ProbeFailureContained ==
    /\ pollPc \in {"enter", "test", "probe", "sleep", "returned", "raised"}
    /\ (pollPc \in {"sleep", "test"} /\ probes > 0) => sleeps >= probes - 1

====
